---- MODULE Spec2Model ----
(***************************************************************************)
(* The command-dispatch core of ntfy_real_time_client: the five process-   *)
(* wide registries, the registration operations (module-level register_*   *)
(* functions and the add_* methods), the notification normalizer and       *)
(* process_message with the five process_* paths it calls, and the         *)
(* websocket callbacks _on_open and _on_message.                           *)
(*                                                                         *)
(* A Python str is a sequence of one-character strings, so that            *)
(* str.split() is computed and not assumed.  A dict is a sequence of       *)
(* [key, value] entries in insertion order with unique keys.               *)
(***************************************************************************)
EXTENDS Integers, Sequences, FiniteSets, TLC

VARIABLES
    COMMAND_FUNCTIONS_REGISTRY,      \* dict: command name -> function
    COMMAND_PARSERS_REGISTRY,        \* dict: command name -> function
    PARSERS_REGISTRY,                \* dict: function name -> function
    SHELL_COMMANDS_REGISTRY,         \* set of str
    SHELL_COMMAND_ALIASES_REGISTRY,  \* dict: alias -> command line
    pc,          \* where process_message stands ("idle": not running)
    event,       \* the mapping the running process_message was given
    raw_data,    \* the local raw_data of the running process_message
    calls,       \* what the running process_message has invoked, in order
    iter,        \* the dict iterator of process_parser's for loop
    dirty,       \* a handler of this notification has called a registration
    last_call    \* the most recent API call and how it ended

vars == <<COMMAND_FUNCTIONS_REGISTRY, COMMAND_PARSERS_REGISTRY,
          PARSERS_REGISTRY, SHELL_COMMANDS_REGISTRY,
          SHELL_COMMAND_ALIASES_REGISTRY, pc, event, raw_data, calls, iter,
          dirty, last_call>>

registries == <<COMMAND_FUNCTIONS_REGISTRY, COMMAND_PARSERS_REGISTRY,
                PARSERS_REGISTRY, SHELL_COMMANDS_REGISTRY,
                SHELL_COMMAND_ALIASES_REGISTRY>>

(***************************************************************************)
(* Bounds and input sets.                                                  *)
(***************************************************************************)

\* Most entries explored, over the five registries together.
MaxEntries == 2

\* Python values: None, a str, a list of str.
None == [tag |-> "None"]
Str(s) == [tag |-> "str", val |-> s]
List(l) == [tag |-> "list", val |-> l]

\* Function objects: __name__ is an identifier; body tells apart two
\* functions of the same name.  Explored: two functions named a and one
\* named aa.
FunctionNames == {<<"a">>, <<"a", "a">>}
FunctionBodies == {"f", "g"}
FUNCTION ==
    {f \in [name : FunctionNames, body : FunctionBodies] :
        f.name = <<"a">> \/ f.body = "f"}

\* Arguments given to the shell registrations: empty, whitespace only, one
\* word, two words.
ShellInputs == {<<>>, <<" ">>, <<"a">>, <<"a", " ", "a">>}

\* Notification messages: empty, whitespace only, one word (bare and with
\* whitespace around it), another word, two different words in both orders.
Messages ==
    {<<>>, <<" ">>, <<"a">>, <<"a", "a">>, <<" ", "a", " ">>,
     <<"a", " ", "a", "a">>, <<"a", "a", " ", "a">>}

\* Command lines given to the alias registrations (str | list).
CommandLines == {Str(<<"l", "s">>), List(<<"ssh", "host", "run-deploy">>)}

(***************************************************************************)
(* Python built-ins the code relies on.                                    *)
(***************************************************************************)

IsSpace(c) == c = " "

RECURSIVE SplitFrom(_, _, _, _)
SplitFrom(s, i, word, acc) ==
    IF i > Len(s)
    THEN IF word = <<>> THEN acc ELSE Append(acc, word)
    ELSE IF IsSpace(s[i])
         THEN SplitFrom(s, i + 1, <<>>,
                        IF word = <<>> THEN acc ELSE Append(acc, word))
         ELSE SplitFrom(s, i + 1, Append(word, s[i]), acc)

\* str.split(): the maximal runs of non-whitespace, in order.
split(s) == SplitFrom(s, 1, <<>>, <<>>)

\* A value_split that takes None for an empty str.
value_split_none_as_empty(v) ==
    [raised |-> "none",
     value |-> IF v.tag = "str" THEN split(v.val) ELSE <<>>]

\* value.split() on a Python value: None has no attribute split.
value_split(v) ==
    IF v.tag = "str"
    THEN [raised |-> "none", value |-> split(v.val)]
    ELSE [raised |-> "AttributeError", value |-> <<>>]

\* list[0]
first_item(l) ==
    IF Len(l) = 0
    THEN [raised |-> "IndexError", value |-> <<>>]
    ELSE [raised |-> "none", value |-> l[1]]

\* A first_word_of that yields the empty str when there is no word.
first_word_or_empty(text) ==
    IF split(text) = <<>>
    THEN [raised |-> "none", value |-> <<>>]
    ELSE [raised |-> "none", value |-> split(text)[1]]

\* text.split()[0]: the first word of a str, IndexError when it has none.
first_word_of(text) == first_item(split(text))

\* key in dict / dict keys
Keys(d) == {d[i].key : i \in DOMAIN d}

\* dict[key], for a key of the dict
Get(d, k) == d[CHOOSE i \in DOMAIN d : d[i].key = k].value

\* An update that adds an entry without looking for the key.
DictUpdateAppend(d, k, v) == Append(d, [key |-> k, value |-> v])

\* An update that clears the dict first.
DictUpdateReplaceAll(d, k, v) == <<[key |-> k, value |-> v]>>

\* An update that moves a key registered again behind the other entries.
DictUpdateMoveToEnd(d, k, v) ==
    Append(SelectSeq(d, LAMBDA e : e.key # k), [key |-> k, value |-> v])

\* dict.update({key: value})
DictUpdate(d, k, v) ==
    IF k \in Keys(d)
    THEN [i \in DOMAIN d |->
             IF d[i].key = k THEN [key |-> k, value |-> v] ELSE d[i]]
    ELSE Append(d, [key |-> k, value |-> v])

(***************************************************************************)
(* The notification normalizer.                                            *)
(***************************************************************************)

CanonicalFields ==
    {"id", "id_str", "umid", "umid_str", "title", "message", "app", "aid",
     "aid_str", "icon", "date", "queued_date", "dispatched_date",
     "priority", "sound", "url", "url_title", "acked", "receipt", "html"}

\* A normalizer that keeps the canonical fields only.
get_notification_model_known_only(kwargs) ==
    [k \in CanonicalFields |->
        IF k \in DOMAIN kwargs THEN kwargs[k] ELSE None]

\* Lines 197-243: the dict of defaults, then update(**kwargs).
get_notification_model(kwargs) ==
    [k \in CanonicalFields \cup DOMAIN kwargs |->
        IF k \in DOMAIN kwargs THEN kwargs[k] ELSE None]

\* Inbound events: with and without a message, with and without another
\* canonical field and an unrecognized one.
EventFields(s) ==
    [message |-> Str(s), title |-> Str(<<"a">>), tag |-> Str(<<"a">>)]
EventDomains == {{}, {"title", "tag"}, {"message", "title", "tag"}}
Events ==
    {[k \in D |-> EventFields(s)[k]] :
        s \in Messages, D \in EventDomains}

NoData == [k \in {} |-> None]

(***************************************************************************)
(* Initial state: the module has been imported, nothing is registered.     *)
(***************************************************************************)

Init ==
    /\ COMMAND_FUNCTIONS_REGISTRY = <<>>
    /\ COMMAND_PARSERS_REGISTRY = <<>>
    /\ PARSERS_REGISTRY = <<>>
    /\ SHELL_COMMANDS_REGISTRY = {}
    /\ SHELL_COMMAND_ALIASES_REGISTRY = <<>>
    /\ pc = "idle"
    /\ event = NoData
    /\ raw_data = NoData
    /\ calls = <<>>
    /\ iter = [pos |-> 0, size |-> 0]
    /\ dirty = FALSE
    /\ last_call = [op |-> "import", status |-> "returned",
                    existed |-> FALSE]

(***************************************************************************)
(* Registration.  Application code calls it during setup (pc = "idle") or  *)
(* from inside a handler that process_message has invoked.                 *)
(***************************************************************************)

InHandler == pc \in {"in_command_function", "in_command_parser", "in_parser"}

Entries(cf, cp, p, sc, sa) ==
    Len(cf) + Len(cp) + Len(p) + Cardinality(sc) + Len(sa)

\* The frame of every registration call: who may call it (the handlers of
\* one notification are explored with at most one registration among them),
\* what it leaves alone, and the exploration bound on the registries' size.
\* last_call notes how the call ended and whether its key was there before.
Registration(op, status, existed) ==
    /\ pc = "idle" \/ (InHandler /\ ~dirty)
    /\ Entries(COMMAND_FUNCTIONS_REGISTRY', COMMAND_PARSERS_REGISTRY',
               PARSERS_REGISTRY', SHELL_COMMANDS_REGISTRY',
               SHELL_COMMAND_ALIASES_REGISTRY') <= MaxEntries
    /\ dirty' = (dirty \/ InHandler)
    /\ last_call' = [op |-> op, status |-> status, existed |-> existed]
    /\ UNCHANGED <<pc, event, raw_data, calls, iter>>

\* Lines 91-109.
register_command(f) ==
    /\ COMMAND_FUNCTIONS_REGISTRY' =
           DictUpdate(COMMAND_FUNCTIONS_REGISTRY, f.name, f)
    /\ UNCHANGED <<COMMAND_PARSERS_REGISTRY, PARSERS_REGISTRY,
                   SHELL_COMMANDS_REGISTRY, SHELL_COMMAND_ALIASES_REGISTRY>>
    /\ Registration("register_command", "returned",
                    f.name \in Keys(COMMAND_FUNCTIONS_REGISTRY))

\* A register_command_parser that files the function as a global parser
\* too.
register_command_parser_and_parser(f) ==
    /\ COMMAND_PARSERS_REGISTRY' =
           DictUpdate(COMMAND_PARSERS_REGISTRY, f.name, f)
    /\ PARSERS_REGISTRY' = DictUpdate(PARSERS_REGISTRY, f.name, f)
    /\ UNCHANGED <<COMMAND_FUNCTIONS_REGISTRY, SHELL_COMMANDS_REGISTRY,
                   SHELL_COMMAND_ALIASES_REGISTRY>>
    /\ Registration("register_command_parser", "returned",
                    f.name \in Keys(COMMAND_PARSERS_REGISTRY))

\* Lines 113-129.
register_command_parser(f) ==
    /\ COMMAND_PARSERS_REGISTRY' =
           DictUpdate(COMMAND_PARSERS_REGISTRY, f.name, f)
    /\ UNCHANGED <<COMMAND_FUNCTIONS_REGISTRY, PARSERS_REGISTRY,
                   SHELL_COMMANDS_REGISTRY, SHELL_COMMAND_ALIASES_REGISTRY>>
    /\ Registration("register_command_parser", "returned",
                    f.name \in Keys(COMMAND_PARSERS_REGISTRY))

\* Lines 132-151.
register_parser(f) ==
    /\ PARSERS_REGISTRY' = DictUpdate(PARSERS_REGISTRY, f.name, f)
    /\ UNCHANGED <<COMMAND_FUNCTIONS_REGISTRY, COMMAND_PARSERS_REGISTRY,
                   SHELL_COMMANDS_REGISTRY, SHELL_COMMAND_ALIASES_REGISTRY>>
    /\ Registration("register_parser", "returned",
                    f.name \in Keys(PARSERS_REGISTRY))

\* Lines 154-168: command.split()[0] raises on a command without a word.
register_shell_command(command) ==
    LET word == first_word_of(command)
    IN  /\ SHELL_COMMANDS_REGISTRY' =
               IF word.raised = "none"
               THEN SHELL_COMMANDS_REGISTRY \cup {word.value}
               ELSE SHELL_COMMANDS_REGISTRY
        /\ UNCHANGED <<COMMAND_FUNCTIONS_REGISTRY, COMMAND_PARSERS_REGISTRY,
                       PARSERS_REGISTRY, SHELL_COMMAND_ALIASES_REGISTRY>>
        /\ Registration("register_shell_command",
                        IF word.raised = "none" THEN "returned"
                        ELSE word.raised,
                        /\ word.raised = "none"
                        /\ word.value \in SHELL_COMMANDS_REGISTRY)

\* Lines 171-194.
register_shell_command_alias(alias, command_line) ==
    LET processed_alias == first_word_of(alias)
    IN  /\ SHELL_COMMAND_ALIASES_REGISTRY' =
               IF processed_alias.raised = "none"
               THEN DictUpdate(SHELL_COMMAND_ALIASES_REGISTRY,
                               processed_alias.value, command_line)
               ELSE SHELL_COMMAND_ALIASES_REGISTRY
        /\ UNCHANGED <<COMMAND_FUNCTIONS_REGISTRY, COMMAND_PARSERS_REGISTRY,
                       PARSERS_REGISTRY, SHELL_COMMANDS_REGISTRY>>
        /\ Registration("register_shell_command_alias",
                        IF processed_alias.raised = "none" THEN "returned"
                        ELSE processed_alias.raised,
                        /\ processed_alias.raised = "none"
                        /\ processed_alias.value
                               \in Keys(SHELL_COMMAND_ALIASES_REGISTRY))

\* Lines 297-308.
add_command_function(function) ==
    LET function_name == function.name
    IN  /\ COMMAND_FUNCTIONS_REGISTRY' =
               DictUpdate(COMMAND_FUNCTIONS_REGISTRY, function_name, function)
        /\ UNCHANGED <<COMMAND_PARSERS_REGISTRY, PARSERS_REGISTRY,
                       SHELL_COMMANDS_REGISTRY,
                       SHELL_COMMAND_ALIASES_REGISTRY>>
        /\ Registration("add_command_function", "returned",
                        function_name \in Keys(COMMAND_FUNCTIONS_REGISTRY))

\* Lines 310-321.
add_command_parser(function) ==
    LET function_name == function.name
    IN  /\ COMMAND_PARSERS_REGISTRY' =
               DictUpdate(COMMAND_PARSERS_REGISTRY, function_name, function)
        /\ UNCHANGED <<COMMAND_FUNCTIONS_REGISTRY, PARSERS_REGISTRY,
                       SHELL_COMMANDS_REGISTRY,
                       SHELL_COMMAND_ALIASES_REGISTRY>>
        /\ Registration("add_command_parser", "returned",
                        function_name \in Keys(COMMAND_PARSERS_REGISTRY))

\* Lines 323-335.
add_parser(function) ==
    LET function_name == function.name
    IN  /\ PARSERS_REGISTRY' =
               DictUpdate(PARSERS_REGISTRY, function_name, function)
        /\ UNCHANGED <<COMMAND_FUNCTIONS_REGISTRY, COMMAND_PARSERS_REGISTRY,
                       SHELL_COMMANDS_REGISTRY,
                       SHELL_COMMAND_ALIASES_REGISTRY>>
        /\ Registration("add_parser", "returned",
                        function_name \in Keys(PARSERS_REGISTRY))

\* Lines 337-338: the command is stored as given.
add_shell_command(command) ==
    /\ SHELL_COMMANDS_REGISTRY' = SHELL_COMMANDS_REGISTRY \cup {command}
    /\ UNCHANGED <<COMMAND_FUNCTIONS_REGISTRY, COMMAND_PARSERS_REGISTRY,
                   PARSERS_REGISTRY, SHELL_COMMAND_ALIASES_REGISTRY>>
    /\ Registration("add_shell_command", "returned",
                    command \in SHELL_COMMANDS_REGISTRY)

\* Lines 340-341: the alias is stored as given.
add_shell_command_alias(alias, command_line) ==
    /\ SHELL_COMMAND_ALIASES_REGISTRY' =
           DictUpdate(SHELL_COMMAND_ALIASES_REGISTRY, alias, command_line)
    /\ UNCHANGED <<COMMAND_FUNCTIONS_REGISTRY, COMMAND_PARSERS_REGISTRY,
                   PARSERS_REGISTRY, SHELL_COMMANDS_REGISTRY>>
    /\ Registration("add_shell_command_alias", "returned",
                    alias \in Keys(SHELL_COMMAND_ALIASES_REGISTRY))

(***************************************************************************)
(* Dispatch.                                                               *)
(***************************************************************************)

\* A process_command_function that passes only what follows the command.
process_command_function_tail(rd) ==
    LET arguments == split(rd["message"].val)
        command == arguments[1]
    IN  [path |-> "command_function",
         handler |-> Get(COMMAND_FUNCTIONS_REGISTRY, command),
         args |-> Tail(arguments),
         kwargs |-> <<[name |-> "raw_data", value |-> rd]>>,
         outcome |-> "running"]

\* Lines 355-359: the call process_command_function makes.
process_command_function(rd) ==
    LET arguments == split(rd["message"].val)
        command == arguments[1]
    IN  [path |-> "command_function",
         handler |-> Get(COMMAND_FUNCTIONS_REGISTRY, command),
         args |-> arguments,
         kwargs |-> <<[name |-> "raw_data", value |-> rd]>>,
         outcome |-> "running"]

\* A process_parser_command that hands over the message text alone.
process_parser_command_message_only(rd) ==
    LET arguments == split(rd["message"].val)
        command == arguments[1]
    IN  [path |-> "command_parser",
         handler |-> Get(COMMAND_PARSERS_REGISTRY, command),
         args |-> <<rd["message"]>>,
         kwargs |-> <<>>,
         outcome |-> "running"]

\* Lines 361-365: the call process_parser_command makes.
process_parser_command(rd) ==
    LET arguments == split(rd["message"].val)
        command == arguments[1]
    IN  [path |-> "command_parser",
         handler |-> Get(COMMAND_PARSERS_REGISTRY, command),
         args |-> <<rd>>,
         kwargs |-> <<>>,
         outcome |-> "running"]

\* Line 370: the call one iteration of process_parser makes.
process_parser(rd, parser) ==
    [path |-> "parser",
     handler |-> Get(PARSERS_REGISTRY, parser),
     args |-> <<rd>>,
     kwargs |-> <<>>,
     outcome |-> "running"]

\* A process_shell_command that runs the command word alone.
process_shell_command_first_word(rd) ==
    LET arguments_str == Str(split(rd["message"].val)[1])
    IN  [path |-> "shell_command",
         popen |-> [args |-> arguments_str, shell |-> TRUE],
         child |-> "running"]

\* Lines 372-375: the process process_shell_command starts.  Popen returns
\* once the child is started; the Popen object is dropped.
process_shell_command(rd) ==
    LET arguments_str == rd["message"]
    IN  [path |-> "shell_command",
         popen |-> [args |-> arguments_str, shell |-> TRUE],
         child |-> "running"]

\* A process_shell_alias that runs the message instead of the stored line.
process_shell_alias_whole_message(rd) ==
    LET command_line_str == rd["message"]
    IN  [path |-> "shell_alias",
         popen |-> [args |-> command_line_str, shell |-> TRUE],
         child |-> "running"]

\* Lines 377-381: the process process_shell_alias starts.
process_shell_alias(rd) ==
    LET alias == split(rd["message"].val)[1]
        command_line_str == Get(SHELL_COMMAND_ALIASES_REGISTRY, alias)
    IN  [path |-> "shell_alias",
         popen |-> [args |-> command_line_str, shell |-> TRUE],
         child |-> "running"]

\* An order with the alias looked up before the shell command.
NextStageSwapped(stage) ==
    CASE stage = "command_function" -> "command_parser"
      [] stage = "command_parser" -> "shell_alias"
      [] stage = "shell_alias" -> "shell_command"
      [] stage = "shell_command" -> "process_parser"

\* The order of the statements of process_message, lines 401-415.
NextStage(stage) ==
    CASE stage = "command_function" -> "command_parser"
      [] stage = "command_parser" -> "shell_command"
      [] stage = "shell_command" -> "shell_alias"
      [] stage = "shell_alias" -> "process_parser"

\* An iterator that starts behind the first entry.
NewIterSkipFirst(d) == [pos |-> 2, size |-> Len(d)]

\* Line 368: the for loop takes an iterator over the dict.
NewIter(d) == [pos |-> 1, size |-> Len(d)]

NoIter == [pos |-> 0, size |-> 0]

\* Where process_message stands after running on from `stage` with the
\* calls `cs` made so far: inside the next handler it calls, or at its end.
\* Between two handler calls no other code of the program runs.
RECURSIVE Continue(_, _, _, _)
Continue(stage, rd, cs, it) ==
    LET first_word == split(rd["message"].val)[1]
        command == first_word
        alias == first_word
    IN  CASE stage = "command_function" ->          \* lines 401-402
                IF command \in Keys(COMMAND_FUNCTIONS_REGISTRY)
                THEN [pc |-> "in_command_function", status |-> "running",
                      calls |-> Append(cs, process_command_function(rd)),
                      iter |-> it]
                ELSE Continue(NextStage(stage), rd, cs, it)
          [] stage = "command_parser" ->            \* lines 404-405
                IF command \in Keys(COMMAND_PARSERS_REGISTRY)
                THEN [pc |-> "in_command_parser", status |-> "running",
                      calls |-> Append(cs, process_parser_command(rd)),
                      iter |-> it]
                ELSE Continue(NextStage(stage), rd, cs, it)
          [] stage = "shell_command" ->             \* lines 407-408
                Continue(NextStage(stage), rd,
                         IF command \in SHELL_COMMANDS_REGISTRY
                         THEN Append(cs, process_shell_command(rd))
                         ELSE cs,
                         it)
          [] stage = "shell_alias" ->               \* lines 410-411
                Continue(NextStage(stage), rd,
                         IF alias \in Keys(SHELL_COMMAND_ALIASES_REGISTRY)
                         THEN Append(cs, process_shell_alias(rd))
                         ELSE cs,
                         it)
          [] stage = "process_parser" ->            \* lines 415, 368
                Continue("parser", rd, cs, NewIter(PARSERS_REGISTRY))
          [] stage = "parser" ->                    \* lines 368-370
                \* a dict iterator raises RuntimeError when the dict has
                \* changed size since the loop began
                IF Len(PARSERS_REGISTRY) # it.size
                THEN [pc |-> "done", status |-> "RuntimeError",
                      calls |-> cs, iter |-> it]
                ELSE IF it.pos > Len(PARSERS_REGISTRY)
                     THEN [pc |-> "done", status |-> "returned",
                           calls |-> cs, iter |-> it]
                     ELSE [pc |-> "in_parser", status |-> "running",
                           calls |-> Append(cs,
                               process_parser(rd,
                                   PARSERS_REGISTRY[it.pos].key)),
                           iter |-> it]

\* process_message takes the position Continue computed.
Goto(at) ==
    /\ pc' = at.pc
    /\ calls' = at.calls
    /\ iter' = at.iter
    /\ last_call' = [op |-> "process_message", status |-> at.status,
                     existed |-> FALSE]

\* A process_message that takes a message without a word for an unknown
\* command and goes on to the global parsers.
process_message_without_word(message) ==
    /\ pc = "idle"
    /\ LET normalized == get_notification_model(message)
           arguments == value_split(normalized["message"])
           first_word == IF arguments.raised = "none"
                         THEN first_item(arguments.value)
                         ELSE arguments
       IN  /\ event' = message
           /\ raw_data' = normalized
           /\ IF first_word.raised = "none"
              THEN Goto(Continue("command_function", normalized, <<>>,
                                 NoIter))
              ELSE Goto(Continue("process_parser", normalized, <<>>,
                                 NoIter))
    /\ dirty' = FALSE
    /\ UNCHANGED registries

\* Lines 383-415: a notification arrives; process_message normalizes it,
\* tokenizes the message and dispatches up to the first handler it calls.
process_message(message) ==
    /\ pc = "idle"
    /\ LET normalized == get_notification_model(message)
           arguments == value_split(normalized["message"])
           first_word == IF arguments.raised = "none"
                         THEN first_item(arguments.value)
                         ELSE arguments
       IN  /\ event' = message
           /\ raw_data' = normalized
           /\ IF first_word.raised = "none"
              THEN Goto(Continue("command_function", normalized, <<>>,
                                 NoIter))
              ELSE Goto([pc |-> "done", status |-> first_word.raised,
                         calls |-> <<>>, iter |-> NoIter])
    /\ dirty' = FALSE
    /\ UNCHANGED registries

\* A Resume of an if/elif chain: after a matched command the other gated
\* paths are skipped.
ResumeElif ==
    CASE pc = "in_command_function" -> "process_parser"
      [] pc = "in_command_parser" -> "process_parser"
      [] pc = "in_parser" -> "parser"

\* A Resume that takes the membership test after the handler for settled
\* and goes on behind it.
ResumeSkipNext ==
    CASE pc = "in_command_function" -> "shell_command"
      [] pc = "in_command_parser" -> "shell_alias"
      [] pc = "in_parser" -> "parser"

\* The statement process_message resumes at when the handler it called
\* returns.
Resume ==
    CASE pc = "in_command_function" -> NextStage("command_function")
      [] pc = "in_command_parser" -> NextStage("command_parser")
      [] pc = "in_parser" -> "parser"

\* The calls so far, the running one (the last) ended with `outcome`.
Ended(outcome) == [calls EXCEPT ![Len(calls)].outcome = outcome]

\* The handler that was called returns; process_message runs on.
handler_returns ==
    /\ InHandler
    /\ Goto(Continue(Resume, raw_data, Ended("returned"),
                     IF pc = "in_parser"
                     THEN [iter EXCEPT !.pos = iter.pos + 1]
                     ELSE iter))
    /\ UNCHANGED <<registries, event, raw_data, dirty>>

\* A handler_raises whose error is held back until the other paths ran.
handler_raises_deferred ==
    /\ InHandler
    /\ LET at == Continue(Resume, raw_data, Ended("raised"),
                          IF pc = "in_parser"
                          THEN [iter EXCEPT !.pos = iter.pos + 1]
                          ELSE iter)
       IN  Goto([at EXCEPT !.status = IF at.pc = "done"
                                      THEN "HandlerError"
                                      ELSE at.status])
    /\ UNCHANGED <<registries, event, raw_data, dirty>>

\* The handler that was called raises: nothing in process_message or the
\* process_* methods catches it.
handler_raises ==
    /\ InHandler
    /\ Goto([pc |-> "done", status |-> "HandlerError",
             calls |-> Ended("raised"), iter |-> iter])
    /\ UNCHANGED <<registries, event, raw_data, dirty>>

\* A child process started by this dispatch ends; nobody waits for it.
child_exits(i) ==
    /\ pc # "idle"
    /\ i \in DOMAIN calls
    /\ calls[i].path \in {"shell_command", "shell_alias"}
    /\ calls[i].child = "running"
    /\ calls' = [calls EXCEPT ![i].child = "exited"]
    /\ UNCHANGED <<registries, pc, event, raw_data, iter, dirty, last_call>>

\* Control is back in the caller of process_message: its locals are gone.
process_message_exit ==
    /\ pc = "done"
    /\ pc' = "idle"
    /\ event' = NoData
    /\ raw_data' = NoData
    /\ calls' = <<>>
    /\ iter' = NoIter
    /\ dirty' = FALSE
    /\ UNCHANGED <<registries, last_call>>

(***************************************************************************)
(* The websocket callbacks.  WebSocketApp calls them from run_forever, one *)
(* at a time, between two notifications.                                   *)
(***************************************************************************)

\* Line 24.
DEBUG == FALSE

\* What an instance of NTFYOpenClientRealTime has: the class attribute of
\* line 249, the attribute __init__ sets (line 283) and the methods.
InstanceAttributes ==
    {"ntfy_websocket_server_commands", "websocketapp",
     "add_command_function", "add_command_parser", "add_parser",
     "add_shell_command", "add_shell_command_alias",
     "process_command_function", "process_parser_command", "process_parser",
     "process_shell_command", "process_shell_alias", "process_message",
     "run_forever", "_on_open", "_on_message", "_on_error", "_on_close"}

\* self.<name>
getattr(name) ==
    IF name \in InstanceAttributes THEN "none" ELSE "AttributeError"

\* Payloads of the websocket (bytes | str).
Payloads == {"#", "!"}

\* A callback has run and ended with `status`; it touches neither the
\* registries nor the dispatcher.
Callback(op, status) ==
    /\ last_call' = [op |-> op, status |-> status, existed |-> FALSE]
    /\ UNCHANGED <<registries, pc, event, raw_data, calls, iter, dirty>>

\* Lines 532-537.
_on_open ==
    /\ pc = "idle"
    /\ Callback("_on_open",
                IF getattr("pushover_websocket_login_string") # "none"
                THEN getattr("pushover_websocket_login_string")
                ELSE IF getattr("send_login") # "none"
                     THEN getattr("send_login")
                     ELSE "returned")

\* Lines 539-545: the payload is looked up in the server commands; nothing
\* here calls process_message.
_on_message(message) ==
    /\ pc = "idle"
    /\ Callback("_on_message",
                IF getattr("pushover_websocket_server_commands") # "none"
                THEN getattr("pushover_websocket_server_commands")
                ELSE IF DEBUG THEN "NameError" ELSE "returned")

Next ==
    \/ \E f \in FUNCTION : register_command(f)
    \/ \E f \in FUNCTION : register_command_parser(f)
    \/ \E f \in FUNCTION : register_parser(f)
    \/ \E c \in ShellInputs : register_shell_command(c)
    \/ \E a \in ShellInputs, l \in CommandLines :
           register_shell_command_alias(a, l)
    \/ \E f \in FUNCTION : add_command_function(f)
    \/ \E f \in FUNCTION : add_command_parser(f)
    \/ \E f \in FUNCTION : add_parser(f)
    \/ \E c \in ShellInputs : add_shell_command(c)
    \/ \E a \in ShellInputs, l \in CommandLines :
           add_shell_command_alias(a, l)
    \/ \E m \in Events : process_message(m)
    \/ handler_returns
    \/ handler_raises
    \/ \E i \in 1..(4 + MaxEntries) : child_exits(i)
    \/ process_message_exit
    \/ _on_open
    \/ \E message \in Payloads : _on_message(message)

Spec == Init /\ [][Next]_vars

(***************************************************************************)
(* Vocabulary of the properties, stated on the text itself and not through *)
(* the operators above.                                                    *)
(***************************************************************************)

NoSpace(w) == \A i \in DOMAIN w : w[i] # " "
AllSpace(s) == \A i \in DOMAIN s : s[i] = " "

\* The positions where a word of s starts, and the word starting there.
WordStarts(s) == {i \in DOMAIN s : s[i] # " " /\ (i = 1 \/ s[i - 1] = " ")}
WordAt(s, i) ==
    SubSeq(s, i, CHOOSE j \in i..Len(s) :
                     /\ \A k \in i..j : s[k] # " "
                     /\ j = Len(s) \/ s[j + 1] = " ")
FirstToken(s) ==
    WordAt(s, CHOOSE i \in WordStarts(s) : \A j \in WordStarts(s) : i <= j)
IsTokenization(args, s) ==
    /\ Len(args) = Cardinality(WordStarts(s))
    /\ \A i \in WordStarts(s) :
           args[Cardinality({j \in WordStarts(s) : j <= i})] = WordAt(s, i)

\* The notification being dispatched.
Msg == raw_data["message"]
HasWord == pc # "idle" /\ Msg.tag = "str" /\ ~AllSpace(Msg.val)
Token == FirstToken(Msg.val)
Status == last_call.status
Returned == pc = "done" /\ Status = "returned"

GatedPaths == {"command_function", "command_parser", "shell_command",
               "shell_alias"}
HandlerPaths == {"command_function", "command_parser", "parser"}
SpawnPaths == {"shell_command", "shell_alias"}
RegistryKeys(path) ==
    CASE path = "command_function" -> Keys(COMMAND_FUNCTIONS_REGISTRY)
      [] path = "command_parser" -> Keys(COMMAND_PARSERS_REGISTRY)
      [] path = "shell_command" -> SHELL_COMMANDS_REGISTRY
      [] path = "shell_alias" -> Keys(SHELL_COMMAND_ALIASES_REGISTRY)
Count(path) == Cardinality({i \in DOMAIN calls : calls[i].path = path})
Rank(path) ==
    CASE path = "command_function" -> 1
      [] path = "command_parser" -> 2
      [] path = "shell_command" -> 3
      [] path = "shell_alias" -> 4
      [] path = "parser" -> 5

(* C1: when a dispatch completes without error (and no handler of it has   *)
(* changed a registry meanwhile), each of the four gated paths has been    *)
(* invoked exactly once if the message's first token is a key of its       *)
(* registry and not at all otherwise, each path on its own; and no gated   *)
(* path is ever invoked twice for one notification.                        *)
C1_GatedPathsOnceIffRegistered ==
    /\ \A p \in GatedPaths : Count(p) <= 1
    /\ (Returned /\ ~dirty) =>
           \A p \in GatedPaths :
               Count(p) = IF Token \in RegistryKeys(p) THEN 1 ELSE 0

\* C1's case: one token in two registries, both paths taken.
C1_Witness ==
    /\ Returned /\ ~dirty
    /\ Token \in RegistryKeys("command_function")
    /\ Token \in RegistryKeys("shell_command")
    /\ Count("command_function") = 1
    /\ Count("shell_command") = 1

(* C2: the invocations of one notification occur in the order command      *)
(* function, command parser, shell command, shell alias, global parsers:   *)
(* no invocation of a later path precedes one of an earlier path.          *)
C2_FixedOrder ==
    \A i, j \in DOMAIN calls :
        i < j => Rank(calls[i].path) <= Rank(calls[j].path)

\* C2's case: two different paths were taken for one notification.
C2_Witness ==
    /\ Len(calls) = 2
    /\ calls[1].path = "shell_command"
    /\ calls[2].path = "shell_alias"

(* C3: a handler that raises is not caught: process_message ends with the  *)
(* handler's error, and the failed call is the last thing invoked for that *)
(* notification.                                                           *)
C3_HandlerErrorAborts ==
    /\ \A i \in DOMAIN calls :
           (calls[i].path \in HandlerPaths /\ calls[i].outcome = "raised")
               => /\ i = Len(calls)
                  /\ pc = "done"
                  /\ last_call.op = "process_message"
                  /\ Status = "HandlerError"
    /\ (pc = "done" /\ Status = "HandlerError")
           => /\ calls # <<>>
              /\ calls[Len(calls)].path \in HandlerPaths
              /\ calls[Len(calls)].outcome = "raised"

\* C3's case: the command function failed while the token is also a shell
\* command and a global parser is registered; neither ran.
C3_Witness ==
    /\ pc = "done" /\ Status = "HandlerError" /\ ~dirty
    /\ calls[Len(calls)].path = "command_function"
    /\ Token \in RegistryKeys("shell_command")

(* C4 as stated: with an empty or absent message, process_message fails    *)
(* with an IndexError.                                                     *)
C4_EmptyOrAbsentIsIndexError ==
    (pc = "done" /\ (Msg = None \/ Msg = Str(<<>>)))
        => Status = "IndexError"

(* C4: with an empty or whitespace-only message process_message fails with *)
(* IndexError, with an absent message (None) it fails with AttributeError; *)
(* either way the error reaches the caller and nothing was invoked.        *)
C4_NoWordIsFatal ==
    (pc = "done" /\ (Msg = None \/ (Msg.tag = "str" /\ AllSpace(Msg.val))))
        => /\ last_call.op = "process_message"
           /\ Status = IF Msg = None THEN "AttributeError" ELSE "IndexError"
           /\ calls = <<>>

\* C4's case: an absent message has been dispatched.
C4_Witness ==
    /\ pc = "done"
    /\ Msg = None
    /\ Status = "AttributeError"

(* C5: when the first token is a key of none of the four gated registries  *)
(* the lookup itself is no error: no gated path is executed and the global *)
(* parsers are invoked, every entry once and in order when none of them    *)
(* raises.                                                                 *)
UnknownCommand == HasWord /\ \A p \in GatedPaths : Token \notin RegistryKeys(p)
C5_UnknownCommandRunsParsers ==
    (UnknownCommand /\ ~dirty) =>
        /\ \A i \in DOMAIN calls : calls[i].path = "parser"
        /\ last_call.op = "process_message"
        /\ Status \in {"running", "returned", "HandlerError"}
        /\ pc = "done" => Status # "running"
        /\ Status = "HandlerError" => calls[Len(calls)].outcome = "raised"
        /\ Returned =>
               /\ Len(calls) = Len(PARSERS_REGISTRY)
               /\ \A i \in DOMAIN calls :
                      /\ calls[i].handler = PARSERS_REGISTRY[i].value
                      /\ calls[i].outcome = "returned"

\* C5's case: a command function is registered, the message names another
\* word, and the registered global parser has run.
C5_Witness ==
    /\ UnknownCommand /\ ~dirty /\ Returned
    /\ Len(COMMAND_FUNCTIONS_REGISTRY) = 1
    /\ Len(PARSERS_REGISTRY) = 1
    /\ Len(calls) = 1

\* The step is a call of registration operation `op` (every registration
\* call notes its name in last_call).
Did(op) == last_call'.op = op

\* After a registration of v under k, dict d has become d2: k has exactly
\* one entry, it holds v, and when k was there before no entry was added
\* and every other entry is as it was.
LastWins(d, d2, k, v) ==
    /\ Cardinality({i \in DOMAIN d2 : d2[i].key = k}) = 1
    /\ \A i \in DOMAIN d2 : d2[i].key = k => d2[i].value = v
    /\ k \in Keys(d) =>
           /\ Len(d2) = Len(d)
           /\ \A i \in DOMAIN d : d[i].key # k => d2[i] = d[i]

(* C6: registering under a key already present replaces the entry: the key *)
(* then resolves to the new value only, the registry holds one entry for   *)
(* it, and every other entry is unchanged (all dict registrations).        *)
C6_LastRegistrationWins ==
    [][/\ Did("register_command") =>
              \A f \in FUNCTION : register_command(f) =>
                  LastWins(COMMAND_FUNCTIONS_REGISTRY,
                           COMMAND_FUNCTIONS_REGISTRY', f.name, f)
       /\ Did("add_command_function") =>
              \A f \in FUNCTION : add_command_function(f) =>
                  LastWins(COMMAND_FUNCTIONS_REGISTRY,
                           COMMAND_FUNCTIONS_REGISTRY', f.name, f)
       /\ Did("register_command_parser") =>
              \A f \in FUNCTION : register_command_parser(f) =>
                  LastWins(COMMAND_PARSERS_REGISTRY,
                           COMMAND_PARSERS_REGISTRY', f.name, f)
       /\ Did("add_command_parser") =>
              \A f \in FUNCTION : add_command_parser(f) =>
                  LastWins(COMMAND_PARSERS_REGISTRY,
                           COMMAND_PARSERS_REGISTRY', f.name, f)
       /\ Did("register_parser") =>
              \A f \in FUNCTION : register_parser(f) =>
                  LastWins(PARSERS_REGISTRY, PARSERS_REGISTRY', f.name, f)
       /\ Did("add_parser") =>
              \A f \in FUNCTION : add_parser(f) =>
                  LastWins(PARSERS_REGISTRY, PARSERS_REGISTRY', f.name, f)
       /\ Did("add_shell_command_alias") =>
              \A a \in ShellInputs, l \in CommandLines :
                  add_shell_command_alias(a, l) =>
                      LastWins(SHELL_COMMAND_ALIASES_REGISTRY,
                               SHELL_COMMAND_ALIASES_REGISTRY', a, l)
       /\ Did("register_shell_command_alias") =>
              \A a \in ShellInputs, l \in CommandLines :
                  (~AllSpace(a) /\ register_shell_command_alias(a, l)) =>
                      LastWins(SHELL_COMMAND_ALIASES_REGISTRY,
                               SHELL_COMMAND_ALIASES_REGISTRY',
                               FirstToken(a), l)
      ]_vars

\* C6's case: a global parser was registered again under a name already
\* there, beside another entry.
C6_Witness ==
    /\ last_call.op = "add_parser"
    /\ last_call.existed
    /\ Len(PARSERS_REGISTRY) = 2

RegistrationOps ==
    {"register_command", "register_command_parser", "register_parser",
     "register_shell_command", "register_shell_command_alias",
     "add_command_function", "add_command_parser", "add_parser",
     "add_shell_command", "add_shell_command_alias"}

(* C7 as stated: every registration operation returns without raising, for *)
(* any input.                                                              *)
C7_RegistrationNeverRaises ==
    last_call.op \in RegistrationOps => Status = "returned"

(* C7: every registration returns without raising and leaves its key       *)
(* registered, except register_shell_command and                           *)
(* register_shell_command_alias given an empty or whitespace-only word:    *)
(* these raise IndexError and leave every registry unchanged.              *)
C7_RegistrationSucceedsOnWords ==
    [][/\ Did("register_command") =>
              \A f \in FUNCTION : register_command(f) =>
                  /\ Status' = "returned"
                  /\ f.name \in Keys(COMMAND_FUNCTIONS_REGISTRY')
       /\ Did("add_command_function") =>
              \A f \in FUNCTION : add_command_function(f) =>
                  /\ Status' = "returned"
                  /\ f.name \in Keys(COMMAND_FUNCTIONS_REGISTRY')
       /\ Did("register_command_parser") =>
              \A f \in FUNCTION : register_command_parser(f) =>
                  /\ Status' = "returned"
                  /\ f.name \in Keys(COMMAND_PARSERS_REGISTRY')
       /\ Did("add_command_parser") =>
              \A f \in FUNCTION : add_command_parser(f) =>
                  /\ Status' = "returned"
                  /\ f.name \in Keys(COMMAND_PARSERS_REGISTRY')
       /\ Did("register_parser") =>
              \A f \in FUNCTION : register_parser(f) =>
                  /\ Status' = "returned"
                  /\ f.name \in Keys(PARSERS_REGISTRY')
       /\ Did("add_parser") =>
              \A f \in FUNCTION : add_parser(f) =>
                  /\ Status' = "returned"
                  /\ f.name \in Keys(PARSERS_REGISTRY')
       /\ Did("add_shell_command") =>
              \A c \in ShellInputs : add_shell_command(c) =>
                  /\ Status' = "returned"
                  /\ c \in SHELL_COMMANDS_REGISTRY'
       /\ Did("register_shell_command") =>
              \A c \in ShellInputs : register_shell_command(c) =>
                  IF AllSpace(c)
                  THEN Status' = "IndexError" /\ UNCHANGED registries
                  ELSE /\ Status' = "returned"
                       /\ FirstToken(c) \in SHELL_COMMANDS_REGISTRY'
       /\ Did("add_shell_command_alias") =>
              \A a \in ShellInputs, l \in CommandLines :
                  add_shell_command_alias(a, l) =>
                      /\ Status' = "returned"
                      /\ a \in Keys(SHELL_COMMAND_ALIASES_REGISTRY')
       /\ Did("register_shell_command_alias") =>
              \A a \in ShellInputs, l \in CommandLines :
                  register_shell_command_alias(a, l) =>
                      IF AllSpace(a)
                      THEN Status' = "IndexError" /\ UNCHANGED registries
                      ELSE /\ Status' = "returned"
                           /\ FirstToken(a)
                                  \in Keys(SHELL_COMMAND_ALIASES_REGISTRY')
      ]_vars

\* C7's case: a shell command without a word was registered.
C7_Witness ==
    /\ last_call.op = "register_shell_command"
    /\ Status = "IndexError"

(* C8: every member of the Shell Command Set and every key of the Shell    *)
(* Alias Registry is a single word containing no whitespace, whichever     *)
(* shell registration operation put it there.                              *)
C8_ShellKeysAreSingleWords ==
    \A k \in SHELL_COMMANDS_REGISTRY \cup Keys(SHELL_COMMAND_ALIASES_REGISTRY) :
        k # <<>> /\ NoSpace(k)

(* C9: when the first token is a key of the Command Function Registry the  *)
(* handler registered under it is invoked first, with the whole            *)
(* tokenization of the message as positional arguments (the command word   *)
(* first) and the full normalized record as keyword argument raw_data.     *)
C9_CommandFunctionArguments ==
    /\ \A i \in DOMAIN calls :
           calls[i].path = "command_function" =>
               /\ IsTokenization(calls[i].args, Msg.val)
               /\ calls[i].args[1] = Token
               /\ calls[i].kwargs = <<[name |-> "raw_data", value |-> raw_data]>>
               /\ CanonicalFields \subseteq DOMAIN raw_data
               /\ calls[i].handler.name = Token
               /\ ~dirty =>
                      \E e \in DOMAIN COMMAND_FUNCTIONS_REGISTRY :
                          COMMAND_FUNCTIONS_REGISTRY[e] =
                              [key |-> Token, value |-> calls[i].handler]
    /\ (HasWord /\ ~dirty /\ Token \in RegistryKeys("command_function"))
           => calls # <<>> /\ calls[1].path = "command_function"

\* C9's case: a command function is running on a two-word message.
C9_Witness ==
    /\ pc = "in_command_function"
    /\ Len(calls[1].args) = 2
    /\ calls[1].args[1] # calls[1].args[2]
    /\ "tag" \in DOMAIN raw_data

(* C10: when the first token is a member of the Shell Command Set,         *)
(* dispatch starts exactly one shell process whose command line is the     *)
(* whole message text unmodified, and goes on without waiting for it: the  *)
(* child is still running when process_message hands over control.         *)
C10_ShellCommandVerbatimNoWait ==
    /\ [](\A i \in DOMAIN calls :
              calls[i].path = "shell_command" =>
                  /\ calls[i].popen = [args |-> Msg, shell |-> TRUE]
                  /\ Token \in SHELL_COMMANDS_REGISTRY \/ dirty)
    /\ []((Returned /\ ~dirty /\ Token \in SHELL_COMMANDS_REGISTRY)
              => Count("shell_command") = 1)
    /\ [][\A i \in DOMAIN calls' :
              (i \notin DOMAIN calls /\ calls'[i].path = "shell_command")
                  => calls'[i].child = "running"]_vars

\* C10's case: a multi-word message was run as a shell command and a later
\* handler is running while the child has not ended.
C10_Witness ==
    /\ pc = "in_parser"
    /\ calls[1].path = "shell_command"
    /\ calls[1].child = "running"
    /\ Len(Msg.val) > Len(Token)

C12_NormalizerFillsAndOverlays ==
    pc # "idle" =>
        /\ Cardinality(CanonicalFields) = 20
        /\ DOMAIN raw_data = CanonicalFields \cup DOMAIN event
        /\ \A k \in DOMAIN event : raw_data[k] = event[k]
        /\ \A k \in CanonicalFields \ DOMAIN event : raw_data[k] = None

\* C12's case: an event that supplies one canonical field and one
\* unrecognized key and has no message has been normalized.
C12_Witness ==
    /\ pc # "idle"
    /\ DOMAIN event = {"title", "tag"}
    /\ raw_data["title"] = Str(<<"a">>)
    /\ raw_data["tag"] = Str(<<"a">>)
    /\ raw_data["message"] = None

(* C13: every payload the websocket hands to _on_message leads to one call *)
(* of process_message, which normalizes it and starts the dispatch, and    *)
(* neither _on_message nor _on_open raises.                                *)
C13_OnMessageDispatchesOnce ==
    [][/\ Did("_on_open") => Status' = "returned"
       /\ Did("_on_message") =>
              /\ Status' = "returned"
              /\ pc' # "idle"
              /\ raw_data' = get_notification_model(event')
      ]_vars

\* The global-parser invocations of the notification, in order, and whether
\* its dispatch has come to the loop over the Global Parser Registry.
ParserCalls == SelectSeq(calls, LAMBDA c : c.path = "parser")
ReachedParserStep == pc # "idle" /\ iter.pos >= 1

C15_HandlersReceiveTheRecord ==
    /\ \A i \in DOMAIN calls :
           /\ calls[i].path \in {"command_parser", "parser"} =>
                  /\ calls[i].args = <<raw_data>>
                  /\ calls[i].kwargs = <<>>
           /\ calls[i].path = "command_function" =>
                  \E j \in DOMAIN calls[i].kwargs :
                      calls[i].kwargs[j] =
                          [name |-> "raw_data", value |-> raw_data]
    /\ pc # "idle" =>
           /\ CanonicalFields \subseteq DOMAIN raw_data
           /\ \A k \in DOMAIN event : raw_data[k] = event[k]
           /\ \A k \in DOMAIN raw_data \ DOMAIN event : raw_data[k] = None

\* C15's case: a command parser and then a global parser have been given
\* the record of one notification that carries an unrecognized key.
C15_Witness ==
    /\ Returned
    /\ Len(calls) = 2
    /\ calls[1].path = "command_parser"
    /\ calls[2].path = "parser"
    /\ calls[1].args = calls[2].args
    /\ "tag" \in DOMAIN calls[2].args[1]

\* The step is one of the dispatcher itself: process_message starting,
\* running on after a handler, failing, or handing back control.
DispatcherStep == last_call'.op = "process_message" \/ pc' # pc

(* C16: no step removes an entry from a registry: the key set of each of   *)
(* the five only grows or stays as it is, and the steps of the dispatcher, *)
(* whether the dispatch succeeds or fails, leave all five unchanged.       *)
C16_RegistriesOnlyGrow ==
    [][/\ Keys(COMMAND_FUNCTIONS_REGISTRY)
              \subseteq Keys(COMMAND_FUNCTIONS_REGISTRY')
       /\ Keys(COMMAND_PARSERS_REGISTRY)
              \subseteq Keys(COMMAND_PARSERS_REGISTRY')
       /\ Keys(PARSERS_REGISTRY) \subseteq Keys(PARSERS_REGISTRY')
       /\ SHELL_COMMANDS_REGISTRY \subseteq SHELL_COMMANDS_REGISTRY'
       /\ Keys(SHELL_COMMAND_ALIASES_REGISTRY)
              \subseteq Keys(SHELL_COMMAND_ALIASES_REGISTRY')
       /\ DispatcherStep => UNCHANGED registries
      ]_vars

\* C16's case: a dispatch has failed in a handler with two registries
\* filled, and both entries are still there.
C16_Witness ==
    /\ pc = "done" /\ Status = "HandlerError"
    /\ Len(COMMAND_FUNCTIONS_REGISTRY) = 1
    /\ Cardinality(SHELL_COMMANDS_REGISTRY) = 1

\* Dict d holds handler h under key k.
Holds(d, k, h) == \E e \in DOMAIN d : d[e] = [key |-> k, value |-> h]

\* The step, if it is a registration, leaves the registries of the other
\* registrations alone.
OthersUntouched ==
    /\ (Did("register_command") \/ Did("add_command_function")) =>
           UNCHANGED <<COMMAND_PARSERS_REGISTRY, PARSERS_REGISTRY,
                       SHELL_COMMANDS_REGISTRY,
                       SHELL_COMMAND_ALIASES_REGISTRY>>
    /\ (Did("register_command_parser") \/ Did("add_command_parser")) =>
           UNCHANGED <<COMMAND_FUNCTIONS_REGISTRY, PARSERS_REGISTRY,
                       SHELL_COMMANDS_REGISTRY,
                       SHELL_COMMAND_ALIASES_REGISTRY>>
    /\ (Did("register_parser") \/ Did("add_parser")) =>
           UNCHANGED <<COMMAND_FUNCTIONS_REGISTRY, COMMAND_PARSERS_REGISTRY,
                       SHELL_COMMANDS_REGISTRY,
                       SHELL_COMMAND_ALIASES_REGISTRY>>
    /\ (Did("register_shell_command") \/ Did("add_shell_command")) =>
           UNCHANGED <<COMMAND_FUNCTIONS_REGISTRY, COMMAND_PARSERS_REGISTRY,
                       PARSERS_REGISTRY, SHELL_COMMAND_ALIASES_REGISTRY>>
    /\ (Did("register_shell_command_alias") \/
        Did("add_shell_command_alias")) =>
           UNCHANGED <<COMMAND_FUNCTIONS_REGISTRY, COMMAND_PARSERS_REGISTRY,
                       PARSERS_REGISTRY, SHELL_COMMANDS_REGISTRY>>

\* Every handler invoked for the notification is the entry of its own
\* path's registry.
ResolvedInOwnRegistry ==
    \A i \in DOMAIN calls :
        /\ calls[i].path = "command_function" =>
               Holds(COMMAND_FUNCTIONS_REGISTRY, Token, calls[i].handler)
        /\ calls[i].path = "command_parser" =>
               Holds(COMMAND_PARSERS_REGISTRY, Token, calls[i].handler)
        /\ calls[i].path = "parser" =>
               Holds(PARSERS_REGISTRY, calls[i].handler.name,
                     calls[i].handler)

(* C17: a registration changes the registry it is for and leaves the other *)
(* four as they are; a name registered in several registries is resolved   *)
(* by each path in its own registry.                                       *)
C17_RegistriesIndependent ==
    /\ [][OthersUntouched]_vars
    /\ [](~dirty => ResolvedInOwnRegistry)

\* C17's case: one name is a command function and a command parser, with
\* different handlers, and a notification has run the two.
C17_Witness ==
    /\ Returned /\ ~dirty
    /\ Len(calls) = 2
    /\ calls[1].path = "command_function"
    /\ calls[2].path = "command_parser"
    /\ calls[1].handler.name = calls[2].handler.name
    /\ calls[1].handler.body # calls[2].handler.body

\* The errors of tokenizing: None has no split, an empty list no item 0.
TokenizeErrors == {"AttributeError", "IndexError"}

Advance ==
    \/ pc = "idle" /\ pc' # "idle" /\ Status' \notin TokenizeErrors
    \/ /\ InHandler
       /\ last_call'.op = "process_message"
       /\ Status' # "HandlerError"
       /\ Len(calls') > Len(calls) \/ pc' = "done"
FromRank ==
    CASE pc = "idle" -> 0
      [] pc = "in_command_function" -> 1
      [] pc = "in_command_parser" -> 2
      [] pc = "in_parser" -> 5
StopRank ==
    CASE pc' = "in_command_function" -> 1
      [] pc' = "in_command_parser" -> 2
      [] OTHER -> 5
Invoked(p) == \E i \in DOMAIN calls' \ DOMAIN calls : calls'[i].path = p

\* Every test the step passes is decided by the registry as it is now,
\* with whatever has been registered since the dispatch began; the tests
\* behind the step and those ahead of it invoke nothing.
TestedWhenReached ==
    /\ \A p \in GatedPaths :
           IF FromRank < Rank(p) /\ Rank(p) <= StopRank
           THEN Invoked(p) <=> Token' \in RegistryKeys(p)
           ELSE ~Invoked(p)
    /\ \A i \in DOMAIN calls' \ DOMAIN calls :
           /\ calls'[i].path = "command_function" =>
                  Holds(COMMAND_FUNCTIONS_REGISTRY, Token', calls'[i].handler)
           /\ calls'[i].path = "command_parser" =>
                  Holds(COMMAND_PARSERS_REGISTRY, Token', calls'[i].handler)
           /\ calls'[i].path = "shell_alias" =>
                  Holds(SHELL_COMMAND_ALIASES_REGISTRY, Token',
                        calls'[i].popen.args)
    /\ (FromRank < 5 /\ StopRank = 5) =>
           IF PARSERS_REGISTRY = <<>>
           THEN pc' = "done"
           ELSE /\ pc' = "in_parser"
                /\ calls'[Len(calls')].handler = PARSERS_REGISTRY[1].value

(* C19: membership is tested when process_message comes to each path, not  *)
(* when the dispatch starts: a path is taken exactly when the first token  *)
(* is in its registry at that moment, so a registration made by an earlier *)
(* handler of the same notification into a registry tested later is seen   *)
(* and its entry invoked, and a registration into a registry whose test is *)
(* already behind invokes nothing for this notification.                   *)
C19_MembershipTestedWhenReached ==
    [][Advance => TestedWhenReached]_vars

\* C19's case: the running command function has just registered the
\* notification's first token as a shell command, which it was not before.
C19_Witness ==
    /\ pc = "in_command_function"
    /\ dirty
    /\ last_call.op = "add_shell_command"
    /\ ~last_call.existed
    /\ Token \in SHELL_COMMANDS_REGISTRY

====
